---- MODULE Spec2Model ----
(***************************************************************************)
(* gh-dispatch: the top-level flow of main() from the confirmation prompt  *)
(* on, and watch_run(), the polling loop that renders job/step progress    *)
(* until the workflow run completes.                                       *)
(*                                                                         *)
(* One action per step between two suspension points (awaits) of the       *)
(* program.  The GitHub API and the operator are the environment: every    *)
(* response is drawn from a small set.                                     *)
(***************************************************************************)
EXTENDS Integers, Sequences, FiniteSets, TLC

\* ------------------------------------------------------------------ bounds

\* Polling cycles explored in one watch session (Spec only).
MaxCycles == 3

\* Largest step number a fetched job snapshot carries.
MaxStepNum == 2

\* ------------------------------------------------- constants of the program

POLL_INTERVAL == 5

MAX_WAIT == 30 * 60

None == "None"

\* ------------------------------------------------------- github.rs: types

\* The variants of enum JobStatus.
JobStatus == {"Queued", "Waiting", "Pending", "InProgress", "Completed", "Unknown"}

\* Faulty variant of DeserializeStatus: a string that is not known is taken
\* for the first variant.
DeserializeStatusDefaultQueued(s) ==
    CASE s = "waiting"     -> "Waiting"
      [] s = "pending"     -> "Pending"
      [] s = "in_progress" -> "InProgress"
      [] s = "completed"   -> "Completed"
      [] OTHER             -> "Queued"

\* serde's deserialisation of a status string into JobStatus
\* (rename_all = "snake_case", #[serde(other)] Unknown).
DeserializeStatus(s) ==
    CASE s = "queued"      -> "Queued"
      [] s = "waiting"     -> "Waiting"
      [] s = "pending"     -> "Pending"
      [] s = "in_progress" -> "InProgress"
      [] s = "completed"   -> "Completed"
      [] OTHER             -> "Unknown"

\* serde's deserialisation of an optional conclusion string into
\* Option<JobConclusion>.
DeserializeConclusion(c) ==
    CASE c = None              -> None
      [] c = "success"         -> "Success"
      [] c = "failure"         -> "Failure"
      [] c = "cancelled"       -> "Cancelled"
      [] c = "skipped"         -> "Skipped"
      [] c = "neutral"         -> "Neutral"
      [] c = "action_required" -> "ActionRequired"
      [] c = "timed_out"       -> "TimedOut"
      [] OTHER                 -> "Unknown"

\* One element of the "steps" array of the API response -> struct Step.
DeserializeStep(s) ==
    [number     |-> s.number,
     status     |-> DeserializeStatus(s.status),
     conclusion |-> DeserializeConclusion(s.conclusion)]

\* One element of the "jobs" array of the API response -> struct Job.
DeserializeJob(j) ==
    [id            |-> j.id,
     status        |-> DeserializeStatus(j.status),
     check_run_url |-> j.check_run_url,
     steps         |-> [i \in 1..Len(j.steps) |-> DeserializeStep(j.steps[i])]]

\* ------------------------------------------- github.rs: check_run_id_from_url

Digits == <<"0", "1", "2", "3", "4", "5", "6", "7", "8", "9">>

IsDigit(c) == \E d \in 1..10 : Digits[d] = c

DigitVal(c) == (CHOOSE d \in 1..10 : Digits[d] = c) - 1

\* url.rsplit('/').next(): the text after the last '/', the whole text when
\* there is none.
RECURSIVE LastSegment(_)
LastSegment(url) ==
    IF url = <<>> THEN <<>>
    ELSE IF url[Len(url)] = "/" THEN <<>>
    ELSE Append(LastSegment(SubSeq(url, 1, Len(url) - 1)), url[Len(url)])

RECURSIVE DecimalValue(_)
DecimalValue(ds) ==
    IF ds = <<>> THEN 0
    ELSE 10 * DecimalValue(SubSeq(ds, 1, Len(ds) - 1)) + DigitVal(ds[Len(ds)])

\* Option<u64>: <<>> is None, <<n>> is Some(n).
IsSome(o) == o # <<>>

\* str::parse::<u64>().ok(): an optional '+', then one or more decimal digits;
\* anything else is an error.  The urls of the model carry at most two
\* digits, so the overflow error of a value of 2^64 or more cannot occur.
ParseU64(seg) ==
    LET ds == IF seg # <<>> /\ seg[1] = "+" THEN Tail(seg) ELSE seg
    IN  IF ds # <<>> /\ (\A i \in 1..Len(ds) : IsDigit(ds[i]))
        THEN << DecimalValue(ds) >>
        ELSE <<>>

check_run_id_from_url(url) == ParseU64(LastSegment(url))

\* ------------------------------------------------------------ environment

JobIds == {1, 2}

\* check_run_url values the API may send: a well-formed one, and one whose
\* trailing path segment is not a number.
GoodUrl == <<"r", "/", "4", "1">>

BadUrl == <<"r", "/", "4", "x">>

CheckRunUrls == {GoodUrl, BadUrl}

\* Status strings of the API: three known ones and one this program does not
\* know ("requested").
JobStatusInputs == {"queued", "in_progress", "completed", "requested"}

StepInputs ==
    { [number |-> n, status |-> "in_progress", conclusion |-> None] : n \in 1..MaxStepNum }
    \cup
    { [number |-> n, status |-> "completed", conclusion |-> "success"] : n \in 1..MaxStepNum }

\* Steps arrays: up to two steps with distinct numbers, in either order.
StepArrays ==
    {<<>>} \cup { <<s>> : s \in StepInputs }
    \cup { p \in StepInputs \X StepInputs : p[1].number # p[2].number }

\* Run records: status and optional conclusion, as strings.
RunInputs ==
    { [status |-> "in_progress", conclusion |-> None] }
    \cup
    { [status |-> "completed", conclusion |-> c] :
        c \in {"success", "failure", "cancelled", "neutral", None} }

\* Annotation lists get_annotations may return (levels only).
AnnotationLists == { <<>>, <<"warning">>, <<"notice", "failure">> }

\* Time a sleep may take: at least POLL_INTERVAL; the long one lets a session
\* of MaxCycles cycles run into MAX_WAIT.
SleepTimes == { POLL_INTERVAL, POLL_INTERVAL + MAX_WAIT }

\* (status, check_run_url) of a job record.  An unparsable url matters only
\* for a completed job.
JobKinds ==
    { <<"in_progress", GoodUrl>>, <<"completed", GoodUrl>>,
      <<"completed", BadUrl>>, <<"requested", GoodUrl>> }

SimpleJobKinds == JobKinds \ { <<"requested", GoodUrl>> }

Step1Done == [number |-> 1, status |-> "completed", conclusion |-> "success"]

\* Job records of the API response for job id j, with any steps array.
JobInputs(j) ==
    { [id |-> j, status |-> k[1], check_run_url |-> k[2], steps |-> ss] :
        k \in JobKinds, ss \in StepArrays }

\* Job records with a short steps array, for the responses with two jobs.
SimpleJobInputs(j) ==
    { [id |-> j, status |-> k[1], check_run_url |-> k[2], steps |-> ss] :
        k \in SimpleJobKinds, ss \in { <<>>, <<Step1Done>> } }

\* The second job of the run always has its one step done.
SecondJobInputs ==
    { [id |-> 2, status |-> k[1], check_run_url |-> k[2], steps |-> <<Step1Done>>] :
        k \in SimpleJobKinds }

\* Job lists of the API response: no job, one job, or the two jobs of the run
\* in either order.
JobListInputs ==
    {<<>>} \cup { <<a>> : a \in JobInputs(1) \cup SecondJobInputs }
    \cup { <<a, b>> : a \in SimpleJobInputs(1), b \in SecondJobInputs }
    \cup { <<b, a>> : a \in SimpleJobInputs(1), b \in SecondJobInputs }

\* ------------------------------------------------------------------ state

VARIABLES
    pc,          \* where the program is: main's steps, then watch_run's
    no_wait,     \* cli.no_wait
    exit,        \* main's result: "running", "ok" or "err"
    outcome,     \* watch_run: "Idle", "Polling", "Done", "TimedOut" or "Failed"
    elapsed,     \* start.elapsed(), in seconds
    run,         \* the Run fetched in this cycle
    jobs,        \* the Vec<Job> fetched in this cycle
    idx,         \* position of `for job in &jobs`
    new_steps,   \* the rest of `for step in new_steps`, after the step just printed
    job_bars,    \* HashMap<u64, (ProgressBar, u32)>: id -> [tracked, finished, last_step]
    annotated,   \* HashSet<u64>
    polls,       \* history: cycles that issued a run fetch
    fetches,     \* history: API calls issued by watch_run
    events,      \* history: this cycle's API calls and output lines, in order
    printed,     \* history: per job, the step numbers printed in the session
    annFetches,  \* history: per job, the annotation fetches issued
    completedAt, \* history: the cycle that first fetched a completed Run (0: none)
    script       \* scripted sessions: the job list the API returns in each cycle

vars == <<pc, no_wait, exit, outcome, elapsed, run, jobs, idx, new_steps, job_bars, annotated,
          polls, fetches, events, printed, annFetches, completedAt, script>>

mainVars == <<no_wait, script>>

loopVars == <<elapsed, run, jobs, idx, new_steps, job_bars, annotated>>

histVars == <<polls, fetches, events, printed, annFetches, completedAt>>

NoRun == [status |-> None, conclusion |-> None]

\* HashMap::new(): no id has an entry.
NoBars == [j \in JobIds |-> [tracked |-> FALSE, finished |-> FALSE, last_step |-> 0]]

\* An entry of `events`.
Ev(kind, job, num, res) == [kind |-> kind, job |-> job, num |-> num, res |-> res]

\* The state at the entry of watch_run, before its first loop iteration.
WatchEntry ==
    /\ pc = "loop"
    /\ no_wait = FALSE
    /\ exit = "running"
    /\ outcome = "Polling"
    /\ elapsed = 0
    /\ run = NoRun
    /\ jobs = <<>>
    /\ idx = 1
    /\ new_steps = <<>>
    /\ job_bars = NoBars
    /\ annotated = {}
    /\ polls = 0
    /\ fetches = 0
    /\ events = <<>>
    /\ printed = [j \in JobIds |-> <<>>]
    /\ annFetches = [j \in JobIds |-> 0]
    /\ completedAt = 0

Init ==
    /\ pc = "confirm"
    /\ no_wait \in BOOLEAN
    /\ script = <<>>
    /\ exit = "running"
    /\ outcome = "Idle"
    /\ elapsed = 0
    /\ run = NoRun
    /\ jobs = <<>>
    /\ idx = 1
    /\ new_steps = <<>>
    /\ job_bars = NoBars
    /\ annotated = {}
    /\ polls = 0
    /\ fetches = 0
    /\ events = <<>>
    /\ printed = [j \in JobIds |-> <<>>]
    /\ annFetches = [j \in JobIds |-> 0]
    /\ completedAt = 0

\* ------------------------------------------------------------ main.rs: main

\* A `?` or bail! in main: the program returns the error.
ExitErr ==
    /\ pc' = "exit"
    /\ exit' = "err"

\* `return Ok(())` / the final Ok(()).
ExitOk ==
    /\ pc' = "exit"
    /\ exit' = "ok"

\* Confirm::new("Continue?").prompt()? answered.
Confirm(answer) ==
    /\ pc = "confirm"
    /\ IF answer
       THEN pc' = "dispatch" /\ exit' = exit
       ELSE ExitOk
    /\ UNCHANGED <<mainVars, outcome, loopVars, histVars>>

\* The prompt itself fails (e.g. not a terminal).
ConfirmErr ==
    /\ pc = "confirm"
    /\ ExitErr
    /\ UNCHANGED <<mainVars, outcome, loopVars, histVars>>

\* Faulty variant of DispatchOk: cli.no_wait is not consulted.
DispatchOkAlwaysWait ==
    /\ pc = "dispatch"
    /\ pc' = "get_latest_run"
    /\ exit' = exit
    /\ UNCHANGED <<mainVars, outcome, loopVars, histVars>>

\* dispatch_workflow(...).await? succeeded; then `if cli.no_wait`.
DispatchOk ==
    /\ pc = "dispatch"
    /\ IF no_wait
       THEN ExitOk
       ELSE pc' = "get_latest_run" /\ exit' = exit
    /\ UNCHANGED <<mainVars, outcome, loopVars, histVars>>

DispatchErr ==
    /\ pc = "dispatch"
    /\ ExitErr
    /\ UNCHANGED <<mainVars, outcome, loopVars, histVars>>

\* get_latest_run(...).await? succeeded; watch_run is entered: its locals are
\* created and `start` is taken.
GetLatestRunOk ==
    /\ pc = "get_latest_run"
    /\ pc' = "loop"
    /\ outcome' = "Polling"
    /\ UNCHANGED <<mainVars, exit, loopVars, histVars>>

GetLatestRunErr ==
    /\ pc = "get_latest_run"
    /\ ExitErr
    /\ UNCHANGED <<mainVars, outcome, loopVars, histVars>>

\* Faulty variant of MainResult: a cancelled run is reported as an error.
MainResultCancelledErr(conclusion) ==
    LET c == IF conclusion = None THEN "unknown" ELSE conclusion
    IN  IF c \in {"failure", "cancelled"} THEN "err" ELSE "ok"

\* What main returns for the conclusion of the completed Run.
MainResult(conclusion) ==
    LET c == IF conclusion = None THEN "unknown" ELSE conclusion
    IN  CASE c = "success"   -> "ok"
          [] c = "failure"   -> "err"
          [] c = "cancelled" -> "ok"
          [] OTHER           -> "ok"

\* watch_run returned Ok(completed): the match on its conclusion.
Report ==
    /\ pc = "report"
    /\ pc' = "exit"
    /\ exit' = MainResult(run.conclusion)
    /\ UNCHANGED <<mainVars, outcome, loopVars, histVars>>

\* ------------------------------------------------------ watcher.rs: watch_run

\* watch_run returns Err: main's `?` returns it.
WatchErr(kind) ==
    /\ outcome' = kind
    /\ ExitErr

\* Faulty variant of TimedOut: >= for >.
TimedOutAtLimit(e) == e >= MAX_WAIT

\* start.elapsed() > Duration::from_secs(MAX_WAIT)
TimedOut(e) == e > MAX_WAIT

\* Faulty variant of LoopTop: the run fetch is issued before the timeout check.
LoopTopFetchFirst ==
    /\ pc = "loop"
    /\ polls' = polls + 1
    /\ fetches' = fetches + 1
    /\ events' = Append(events, Ev("FetchRun", 0, 0, None))
    /\ IF TimedOut(elapsed)
       THEN WatchErr("TimedOut")
       ELSE /\ pc' = "get_run"
            /\ UNCHANGED <<exit, outcome>>
    /\ UNCHANGED <<mainVars, loopVars, printed, annFetches, completedAt>>

\* Top of the loop: the timeout check, then the run fetch is issued.
LoopTop ==
    /\ pc = "loop"
    /\ IF TimedOut(elapsed)
       THEN /\ WatchErr("TimedOut")
            /\ UNCHANGED <<polls, fetches, events>>
       ELSE /\ pc' = "get_run"
            /\ polls' = polls + 1
            /\ fetches' = fetches + 1
            /\ events' = Append(events, Ev("FetchRun", 0, 0, None))
            /\ UNCHANGED <<exit, outcome>>
    /\ UNCHANGED <<mainVars, loopVars, printed, annFetches, completedAt>>

\* client.workflows(owner, repo).get(run_id).await? succeeded with Run r; the
\* jobs fetch is issued.
GetRunOk(r) ==
    /\ pc = "get_run"
    /\ run' = r
    /\ pc' = "get_run_jobs"
    /\ fetches' = fetches + 1
    /\ events' = Append(events, Ev("FetchJobs", 0, 0, None))
    /\ completedAt' = IF completedAt = 0 /\ r.status = "completed" THEN polls ELSE completedAt
    /\ UNCHANGED <<mainVars, exit, outcome, elapsed, jobs, idx, new_steps, job_bars,
                   annotated, polls, printed, annFetches>>

GetRunErr ==
    /\ pc = "get_run"
    /\ WatchErr("Failed")
    /\ events' = Append(events, Ev("FetchFailed", 0, 0, "run"))
    /\ UNCHANGED <<mainVars, loopVars, polls, fetches, printed, annFetches, completedAt>>

\* get_run_jobs(...).await? succeeded with the deserialised response.
GetRunJobsOk(resp) ==
    /\ pc = "get_run_jobs"
    /\ jobs' = [i \in 1..Len(resp) |-> DeserializeJob(resp[i])]
    /\ idx' = 1
    /\ pc' = "for_jobs"
    /\ UNCHANGED <<mainVars, exit, outcome, elapsed, run, new_steps, job_bars, annotated,
                   histVars>>

GetRunJobsErr ==
    /\ pc = "get_run_jobs"
    /\ WatchErr("Failed")
    /\ events' = Append(events, Ev("FetchFailed", 0, 0, "jobs"))
    /\ UNCHANGED <<mainVars, loopVars, polls, fetches, printed, annFetches, completedAt>>

\* Faulty variant of NewSteps: only the step that follows the cursor is new.
NewStepsNextOnly(steps, last_step) ==
    SelectSeq(steps, LAMBDA s : s.number = last_step + 1 /\ s.status = "Completed")

\* Faulty variant of NewSteps: the step at the cursor counts as new.
NewStepsFromCursor(steps, last_step) ==
    SelectSeq(steps, LAMBDA s : s.number >= last_step /\ s.status = "Completed")

\* Faulty variant of NewSteps: the status of the step is not consulted.
NewStepsAnyStatus(steps, last_step) ==
    SelectSeq(steps, LAMBDA s : s.number > last_step)

\* job.steps.iter().filter(|s| s.number > *last_step && s.status == Completed)
NewSteps(steps, last_step) ==
    SelectSeq(steps, LAMBDA s : s.number > last_step /\ s.status = "Completed")

\* Faulty variant of NeedsAnnotationFetch: the `annotated` set is not consulted.
NeedsAnnotationFetchAlways(job, ann) ==
    IsSome(check_run_id_from_url(job.check_run_url))

\* Faulty variant of NeedsAnnotationFetch: the check_run_url is not consulted.
NeedsAnnotationFetchAnyUrl(job, ann) == job.id \notin ann

\* check_run_id_from_url(..) is Some && annotated.insert(job.id)
NeedsAnnotationFetch(job, ann) ==
    /\ IsSome(check_run_id_from_url(job.check_run_url))
    /\ job.id \notin ann

\* Faulty variant of JobUpdatedLine: the line of a job is redrawn only while
\* the job is not completed.
JobUpdatedLineWhileRunning(job) ==
    IF job.status = "Completed" THEN <<>>
    ELSE << Ev("JobUpdated", job.id, 0, job.status) >>

\* bar.set_message(format_job_message(job)): the job's line is redrawn.
JobUpdatedLine(job) == << Ev("JobUpdated", job.id, 0, job.status) >>

\* The rest of an iteration of `for job in &jobs` after its steps are printed:
\* the spinner message, bar.finish() and the annotation fetch of a completed
\* job, up to the await of that fetch or the end of the iteration.  `bars` and
\* `evs` are job_bars and events as the printed steps left them.
EndOfIteration(job, bars, evs) ==
    LET completed == job.status = "Completed"
        fetch     == completed /\ NeedsAnnotationFetch(job, annotated)
        evs2      == evs \o JobUpdatedLine(job)
    IN  /\ job_bars' = [bars EXCEPT ![job.id].finished = @ \/ completed]
        /\ new_steps' = <<>>
        /\ IF fetch
           THEN /\ annotated' = annotated \cup {job.id}
                /\ annFetches' = [annFetches EXCEPT ![job.id] = @ + 1]
                /\ fetches' = fetches + 1
                /\ events' = Append(evs2, Ev("FetchAnnotations", job.id, 0, None))
                /\ pc' = "get_annotations"
                /\ idx' = idx
           ELSE /\ events' = evs2
                /\ pc' = "for_jobs"
                /\ idx' = idx + 1
                /\ UNCHANGED <<annotated, annFetches, fetches>>

\* Faulty variant of PrintStep: one cursor is kept for all the jobs.
PrintStepSharedCursor(job, bars, evs, ns) ==
    LET step  == Head(ns)
        bars1 == [j \in JobIds |-> [bars[j] EXCEPT !.last_step = step.number]]
        evs1  == Append(evs, Ev("StepCompleted", job.id, step.number, step.conclusion))
    IN  /\ printed' = [printed EXCEPT ![job.id] = Append(@, step.number)]
        /\ IF Tail(ns) = <<>>
           THEN EndOfIteration(job, bars1, evs1)
           ELSE /\ job_bars' = bars1
                /\ events' = evs1
                /\ new_steps' = Tail(ns)
                /\ pc' = "for_steps"
                /\ UNCHANGED <<idx, annotated, annFetches, fetches>>

\* One iteration of `for step in new_steps`, ns being the steps not yet
\* printed: the step's line is printed and `*last_step = step.number`.  After
\* the last step the iteration of the job goes on to its end.
PrintStep(job, bars, evs, ns) ==
    LET step  == Head(ns)
        bars1 == [bars EXCEPT ![job.id].last_step = step.number]
        evs1  == Append(evs, Ev("StepCompleted", job.id, step.number, step.conclusion))
    IN  /\ printed' = [printed EXCEPT ![job.id] = Append(@, step.number)]
        /\ IF Tail(ns) = <<>>
           THEN EndOfIteration(job, bars1, evs1)
           ELSE /\ job_bars' = bars1
                /\ events' = evs1
                /\ new_steps' = Tail(ns)
                /\ pc' = "for_steps"
                /\ UNCHANGED <<idx, annotated, annFetches, fetches>>

\* An iteration of `for job in &jobs` begins: the job's entry of job_bars
\* (created with last_step 0 for a new id), the new steps collected, and the
\* first of them printed.  The log notes the cursor the iteration starts from.
ReconcileJob ==
    /\ pc = "for_jobs"
    /\ idx <= Len(jobs)
    /\ LET job   == jobs[idx]
           start == job_bars[job.id].last_step
           bars  == [job_bars EXCEPT ![job.id].tracked = TRUE]
           evs   == Append(events, Ev("Reconcile", job.id, start, None))
           ns    == NewSteps(job.steps, start)
       IN  IF ns = <<>>
           THEN /\ printed' = printed
                /\ EndOfIteration(job, bars, evs)
           ELSE PrintStep(job, bars, evs, ns)
    /\ UNCHANGED <<mainVars, exit, outcome, elapsed, run, jobs, polls, completedAt>>

\* The next iteration of `for step in new_steps`.
NextStep ==
    /\ pc = "for_steps"
    /\ PrintStep(jobs[idx], job_bars, events, new_steps)
    /\ UNCHANGED <<mainVars, exit, outcome, elapsed, run, jobs, polls, completedAt>>

\* get_annotations(...).await? succeeded: one line per annotation, then the
\* iteration ends.
GetAnnotationsOk(anns) ==
    /\ pc = "get_annotations"
    /\ events' = Append(events, Ev("AnnotationsFetched", jobs[idx].id, Len(anns), None))
                    \o [i \in 1..Len(anns) |->
                           Ev("AnnotationEmitted", jobs[idx].id, i, anns[i])]
    /\ idx' = idx + 1
    /\ pc' = "for_jobs"
    /\ UNCHANGED <<mainVars, exit, outcome, elapsed, run, jobs, new_steps, job_bars,
                   annotated, polls, fetches, printed, annFetches, completedAt>>

\* Faulty variant of GetAnnotationsErr: the error is dropped and the loop goes on.
GetAnnotationsErrIgnored ==
    /\ pc = "get_annotations"
    /\ events' = Append(events, Ev("FetchFailed", jobs[idx].id, 0, "annotations"))
    /\ idx' = idx + 1
    /\ pc' = "for_jobs"
    /\ UNCHANGED <<mainVars, exit, outcome, elapsed, run, jobs, new_steps, job_bars,
                   annotated, polls, fetches, printed, annFetches, completedAt>>

\* Faulty variant of GetAnnotationsErr: the lines of the failing cycle are
\* held back until the cycle succeeds, and are lost with it.
GetAnnotationsErrDiscarding ==
    /\ pc = "get_annotations"
    /\ WatchErr("Failed")
    /\ events' = << Ev("FetchFailed", jobs[idx].id, 0, "annotations") >>
    /\ UNCHANGED <<mainVars, loopVars, polls, fetches, printed, annFetches, completedAt>>

\* get_annotations(...).await? failed: watch_run returns the error.
GetAnnotationsErr ==
    /\ pc = "get_annotations"
    /\ WatchErr("Failed")
    /\ events' = Append(events, Ev("FetchFailed", jobs[idx].id, 0, "annotations"))
    /\ UNCHANGED <<mainVars, loopVars, polls, fetches, printed, annFetches, completedAt>>

\* Faulty variant of RunCompleted: the conclusion is tested instead of the status.
RunHasConclusion(r) == r.conclusion # None

\* Faulty variant of RunCompleted: anything but a queued run counts as completed.
RunNotQueued(r) == r.status # "queued"

\* run.status == "completed"
RunCompleted(r) == r.status = "completed"

\* Every job of the fetched list is completed.
AllJobsCompleted == \A i \in 1..Len(jobs) : jobs[i].status = "Completed"

\* Faulty variant of RunStatusCheck: the loop also returns when every fetched job is
\* completed.
RunStatusCheckJobs ==
    /\ pc = "for_jobs"
    /\ idx > Len(jobs)
    /\ IF RunCompleted(run) \/ (jobs # <<>> /\ AllJobsCompleted)
       THEN /\ job_bars' = [j \in JobIds |->
                               [job_bars[j] EXCEPT !.finished = @ \/ job_bars[j].tracked]]
            /\ outcome' = "Done"
            /\ pc' = "report"
       ELSE /\ pc' = "sleep"
            /\ UNCHANGED <<outcome, job_bars>>
    /\ UNCHANGED <<mainVars, exit, elapsed, run, jobs, idx, new_steps, annotated, histVars>>

\* Faulty variant of RunStatusCheck: the loop goes back to its top without the
\* sleep.
RunStatusCheckNoSleep ==
    /\ pc = "for_jobs"
    /\ idx > Len(jobs)
    /\ IF RunCompleted(run)
       THEN /\ job_bars' = [j \in JobIds |->
                               [job_bars[j] EXCEPT !.finished = @ \/ job_bars[j].tracked]]
            /\ outcome' = "Done"
            /\ pc' = "report"
            /\ UNCHANGED <<run, jobs, idx, events>>
       ELSE /\ pc' = "loop"
            /\ run' = NoRun
            /\ jobs' = <<>>
            /\ idx' = 1
            /\ events' = <<>>
            /\ UNCHANGED <<outcome, job_bars>>
    /\ UNCHANGED <<mainVars, exit, elapsed, new_steps, annotated, polls, fetches, printed,
                   annFetches, completedAt>>

\* Faulty variant of RunStatusCheck: only the bars of the jobs of the final list are
\* finished.
RunStatusCheckListOnly ==
    /\ pc = "for_jobs"
    /\ idx > Len(jobs)
    /\ IF RunCompleted(run)
       THEN /\ job_bars' = [j \in JobIds |->
                               [job_bars[j] EXCEPT !.finished =
                                   @ \/ (\E i \in 1..Len(jobs) : jobs[i].id = j)]]
            /\ outcome' = "Done"
            /\ pc' = "report"
       ELSE /\ pc' = "sleep"
            /\ UNCHANGED <<outcome, job_bars>>
    /\ UNCHANGED <<mainVars, exit, elapsed, run, jobs, idx, new_steps, annotated, histVars>>

\* After the for loop: return Ok(run) with every bar finished, or start the
\* sleep.
RunStatusCheck ==
    /\ pc = "for_jobs"
    /\ idx > Len(jobs)
    /\ IF RunCompleted(run)
       THEN /\ job_bars' = [j \in JobIds |->
                               [job_bars[j] EXCEPT !.finished = @ \/ job_bars[j].tracked]]
            /\ outcome' = "Done"
            /\ pc' = "report"
       ELSE /\ pc' = "sleep"
            /\ UNCHANGED <<outcome, job_bars>>
    /\ UNCHANGED <<mainVars, exit, elapsed, run, jobs, idx, new_steps, annotated, histVars>>

\* tokio::time::sleep(POLL_INTERVAL).await returns; d seconds have passed
\* since the top of this iteration (its fetches, then the sleep of at least
\* POLL_INTERVAL).  `run` and `jobs` go out of scope with the iteration.
Sleep(d) ==
    /\ pc = "sleep"
    /\ elapsed' = elapsed + d
    /\ run' = NoRun
    /\ jobs' = <<>>
    /\ idx' = 1
    /\ events' = <<>>
    /\ pc' = "loop"
    /\ UNCHANGED <<mainVars, exit, outcome, new_steps, job_bars, annotated,
                   polls, fetches, printed, annFetches, completedAt>>

\* ---------------------------------------------------------- specification

Next ==
    \/ \E a \in BOOLEAN : Confirm(a)
    \/ ConfirmErr
    \/ DispatchOk
    \/ DispatchErr
    \/ GetLatestRunOk
    \/ GetLatestRunErr
    \/ (polls < MaxCycles \/ TimedOut(elapsed)) /\ LoopTop
    \/ \E r \in RunInputs : GetRunOk(r)
    \/ GetRunErr
    \/ \E resp \in JobListInputs : GetRunJobsOk(resp)
    \/ GetRunJobsErr
    \/ ReconcileJob
    \/ NextStep
    \/ \E anns \in AnnotationLists : GetAnnotationsOk(anns)
    \/ GetAnnotationsErr
    \/ RunStatusCheck
    \/ \E d \in SleepTimes : Sleep(d)
    \/ Report

Spec == Init /\ [][Next]_vars

\* ------------------------------------------------ watch sessions in isolation

\* A run that never completes and an API that never fails: the session can
\* only end by the timeout.  The run has one job, still in progress, two of
\* its steps done.
PendingRun == [status |-> "in_progress", conclusion |-> None]

PendingJobs ==
    << [id |-> 1, status |-> "in_progress", check_run_url |-> GoodUrl,
        steps |-> << [number |-> 1, status |-> "completed", conclusion |-> "success"],
                     [number |-> 2, status |-> "completed", conclusion |-> "success"] >>] >>

\* The iteration takes the sleep's POLL_INTERVAL, or a second more.
SlowSleepTimes == { POLL_INTERVAL, POLL_INTERVAL + 1 }

InitWatch ==
    /\ WatchEntry
    /\ script = <<>>

NextTimeout ==
    \/ LoopTop
    \/ GetRunOk(PendingRun)
    \/ GetRunJobsOk(PendingJobs)
    \/ ReconcileJob
    \/ NextStep
    \/ RunStatusCheck
    \/ \E d \in SlowSleepTimes : Sleep(d)

SpecTimeout == InitWatch /\ [][NextTimeout]_vars

\* The job list of one cycle of the example session: job 1 alone.
ScenarioJobs(status, steps) ==
    << [id |-> 1, status |-> status, check_run_url |-> GoodUrl, steps |-> steps] >>

\* The example session: job 1 polled three times, its first step queued,
\* then done while the second runs, then both done and the job completed.
Scenario ==
    << ScenarioJobs("in_progress",
                    << [number |-> 1, status |-> "queued", conclusion |-> None] >>),
       ScenarioJobs("in_progress",
                    << [number |-> 1, status |-> "completed", conclusion |-> "success"],
                       [number |-> 2, status |-> "in_progress", conclusion |-> None] >>),
       ScenarioJobs("completed",
                    << [number |-> 1, status |-> "completed", conclusion |-> "success"],
                       [number |-> 2, status |-> "completed", conclusion |-> "failure"] >>) >>

\* A job list with strings this build does not know: the status of the job,
\* the conclusion of its first step and the status of its second.
UnknownJobs ==
    << [id |-> 1, status |-> "requested", check_run_url |-> GoodUrl,
        steps |-> << [number |-> 1, status |-> "completed", conclusion |-> "stale"],
                     [number |-> 2, status |-> "requested", conclusion |-> None] >>] >>

\* Scripted sessions: the job list of each cycle is fixed in advance; the
\* session is watched for the cycles of the script.  A script polls one job
\* list twice, or is the example session.
Scripts ==
    { <<l, l>> : l \in JobListInputs \cup { UnknownJobs } } \cup { Scenario }

InitScript ==
    /\ WatchEntry
    /\ script \in Scripts

NextScript ==
    \/ (polls < Len(script) \/ TimedOut(elapsed)) /\ LoopTop
    \/ \E r \in RunInputs : GetRunOk(r)
    \/ GetRunJobsOk(script[polls])
    \/ ReconcileJob
    \/ NextStep
    \/ \E anns \in AnnotationLists : GetAnnotationsOk(anns)
    \/ GetAnnotationsErr
    \/ RunStatusCheck
    \/ Sleep(POLL_INTERVAL)
    \/ Report

SpecScript == InitScript /\ [][NextScript]_vars

\* ------------------------------------------------------------------ claims

\* The entries of this cycle's `events` of one kind for one job.
EventsOf(kind, j) == SelectSeq(events, LAMBDA e : e.kind = kind /\ e.job = j)

\* The for loop of this cycle has run to its end.
CycleReconciled == pc = "for_jobs" /\ idx > Len(jobs)

\* C1: over a whole session, no step number of a job is printed as completed
\* twice.
C1_StepReportedOnce ==
    \A j \in JobIds : \A a, b \in 1..Len(printed[j]) :
        a # b => printed[j][a] # printed[j][b]

\* C2: the step numbers printed for a job over a session are strictly
\* increasing.
C2_StepsAscending ==
    \A j \in JobIds : \A a \in 1..(Len(printed[j]) - 1) :
        printed[j][a] < printed[j][a + 1]

\* C3: annotations are fetched at most once per job and session; the job is
\* in `annotated` while its fetch is pending; annotation lines only follow
\* a fetch issued in the same cycle.
C3_AnnotationsAtMostOnce ==
    /\ \A j \in JobIds :
          /\ annFetches[j] <= 1
          /\ (annFetches[j] = 1 <=> j \in annotated)
          /\ (EventsOf("AnnotationEmitted", j) # <<>>
                => Len(EventsOf("FetchAnnotations", j)) = 1)
    /\ (pc = "get_annotations" => jobs[idx].id \in annotated)

\* C3 witness: in the third cycle a job whose annotations were fetched in an
\* earlier cycle is completed again, and no fetch is issued for it.
C3_Witness ==
    /\ CycleReconciled
    /\ polls = 3
    /\ \E i \in 1..Len(jobs) :
          /\ jobs[i].status = "Completed"
          /\ IsSome(check_run_id_from_url(jobs[i].check_run_url))
          /\ annFetches[jobs[i].id] = 1
          /\ EventsOf("FetchAnnotations", jobs[i].id) = <<>>

\* C4: when a poll returns the job list of the poll before it, the second
\* poll prints no completed step and no annotation.
C4_IdempotentRepoll ==
    (polls = 2 /\ script[1] = script[2])
        => \A j \in JobIds :
              /\ EventsOf("StepCompleted", j) = <<>>
              /\ EventsOf("AnnotationEmitted", j) = <<>>

\* C5: the loop returns Done in the cycle that first fetches a completed Run
\* (when the fetches of that cycle succeed), never sleeps after such a fetch,
\* and issues no fetch once Done.
C5_Termination ==
    /\ [](outcome = "Done" => completedAt = polls /\ RunCompleted(run))
    /\ [](pc \in {"sleep", "loop"} => completedAt = 0)
    /\ [][(CycleReconciled /\ completedAt = polls /\ polls > 0) => outcome' = "Done"]_vars
    /\ [][outcome = "Done" => (fetches' = fetches /\ polls' = polls /\ outcome' = "Done")]_vars

\* C5 witness: Done is returned in the third cycle, main has taken the Run.
C5_Witness ==
    /\ outcome = "Done"
    /\ polls = 3
    /\ completedAt = 3
    /\ pc = "exit"

\* ceil(MAX_WAIT / POLL_INTERVAL) + 1
MaxPolls == (MAX_WAIT + POLL_INTERVAL - 1) \div POLL_INTERVAL + 1

\* C6: with a run that never completes and fetches that never fail, the loop
\* polls only while elapsed <= MAX_WAIT, ends in TimedOut at the first loop
\* top with elapsed > MAX_WAIT, and has polled at most MaxPolls times.
C6_Timeout ==
    /\ [](polls <= MaxPolls)
    /\ [](pc = "get_run" => elapsed <= MAX_WAIT)
    /\ [](outcome = "TimedOut" => elapsed > MAX_WAIT)
    /\ [][(pc = "loop" /\ elapsed > MAX_WAIT) => outcome' = "TimedOut"]_vars
    /\ [][(pc = "loop" /\ elapsed <= MAX_WAIT) => outcome' = "Polling"]_vars

\* C6 witness: the session times out after MaxPolls polls.
C6_Witness ==
    /\ outcome = "TimedOut"
    /\ polls = MaxPolls

\* C7: at the end of a cycle in which every fetched job is completed and the
\* fetched Run is not, the loop does not return: it sleeps, and the sleep
\* leads back to the top of the loop.
C7_OnlyRunStatusEnds ==
    /\ [][(CycleReconciled /\ jobs # <<>> /\ AllJobsCompleted /\ run.status # "completed")
            => (pc' = "sleep" /\ outcome' = "Polling")]_vars
    /\ [][pc = "sleep" => (pc' = "loop" /\ outcome' = "Polling")]_vars

\* C7 witness: the loop sleeps after a cycle whose two jobs are both
\* completed while the Run is in progress.
C7_Witness ==
    /\ pc = "sleep"
    /\ Len(jobs) = 2
    /\ AllJobsCompleted
    /\ run.status = "in_progress"

\* C8 as claimed: when the loop returns Done, every job of the job list of
\* the final cycle is completed.
C8_JobsCompletedAtDone == outcome = "Done" => AllJobsCompleted

\* C8 amended: when the loop returns Done, the Run fetched in the final cycle
\* is completed, whatever the statuses of the fetched jobs.
C8_DoneOnRunStatus ==
    outcome = "Done" => (polls > 0 /\ run.status = "completed")

\* C8 witness: Done with a job of the final list that is not completed.
C8_Witness ==
    /\ outcome = "Done"
    /\ ~AllJobsCompleted

\* A fetch of this cycle has failed.
FetchFailed == \E i \in 1..Len(events) : events[i].kind = "FetchFailed"

\* C9: a failed fetch ends the session in Failed: main returns the error, no
\* Run is reported, and nothing is fetched afterwards.
C9_FetchFailureIsFatal ==
    /\ [](FetchFailed => (outcome = "Failed" /\ pc = "exit" /\ exit = "err"
                            /\ events[Len(events)].kind = "FetchFailed"))
    /\ [](outcome = "Failed" => FetchFailed)
    /\ [][outcome = "Failed" => (fetches' = fetches /\ pc' = "exit")]_vars

\* C9 witness: an annotation fetch fails in the second cycle.
C9_Witness ==
    /\ outcome = "Failed"
    /\ polls = 2
    /\ events[Len(events)].res = "annotations"

\* C10: after Done, main returns an error exactly when the conclusion of the
\* Run is "failure"; every other conclusion, and none, is a normal return.
C10_ConclusionMapping ==
    (pc = "exit" /\ outcome = "Done")
        => /\ exit \in {"ok", "err"}
           /\ (exit = "err" <=> run.conclusion = "failure")

\* C10 witness: a cancelled run ends in a normal return.
C10_Witness ==
    /\ pc = "exit"
    /\ outcome = "Done"
    /\ run.conclusion = "cancelled"
    /\ exit = "ok"

\* C11: the cursor of a job, the last_step stored with its bar, never
\* decreases from one state of the session to the next.
C11_MonotonicCursor ==
    [][\A j \in JobIds : job_bars'[j].last_step >= job_bars[j].last_step]_vars

\* The place of a kind of line among the lines of one job in one cycle.
EventRank(kind) ==
    CASE kind = "StepCompleted"     -> 1
      [] kind = "JobUpdated"        -> 2
      [] kind = "AnnotationEmitted" -> 3
      [] OTHER                      -> 0

\* C12: within one cycle the lines of a job come in the order StepCompleted in
\* ascending step number, then JobUpdated, then AnnotationEmitted; no
\* StepCompleted follows the JobUpdated or an annotation of that job.
C12_JobEventOrder ==
    \A a, b \in 1..Len(events) :
        ( /\ a < b
          /\ events[a].job = events[b].job
          /\ EventRank(events[a].kind) > 0
          /\ EventRank(events[b].kind) > 0 )
        => /\ EventRank(events[a].kind) <= EventRank(events[b].kind)
           /\ (events[a].kind = "StepCompleted" /\ events[b].kind = "StepCompleted")
                  => events[a].num < events[b].num

\* The iteration of `for job in &jobs` for the i-th job of the list has come
\* to bar.set_message: it has ended, or it waits for its annotations, or the
\* fetch of its annotations has failed.
IterationUpdated(i) ==
    \/ i < idx
    \/ i = idx /\ (pc = "get_annotations" \/ outcome = "Failed")

\* C13: in a cycle whose run and jobs fetches succeeded, each job of the
\* fetched list has exactly one JobUpdated line once its iteration has come
\* that far and none before, no other job has one, and a job with no steps has
\* no StepCompleted line.
C13_OneJobUpdatedPerJob ==
    /\ \A i \in 1..Len(jobs) :
          /\ Len(EventsOf("JobUpdated", jobs[i].id))
                = (IF IterationUpdated(i) THEN 1 ELSE 0)
          /\ jobs[i].steps = <<>> => EventsOf("StepCompleted", jobs[i].id) = <<>>
    /\ \A j \in JobIds :
          (\A i \in 1..Len(jobs) : jobs[i].id # j) => EventsOf("JobUpdated", j) = <<>>

\* C13 witness: the second cycle has reconciled a list of two jobs, one of
\* them without steps and the other with a step printed in this cycle.
C13_Witness ==
    /\ CycleReconciled
    /\ polls = 2
    /\ Len(jobs) = 2
    /\ jobs[1].steps = <<>>
    /\ EventsOf("JobUpdated", jobs[1].id) # <<>>
    /\ EventsOf("StepCompleted", jobs[2].id) # <<>>

\* C14 as stated: whatever its check_run_url looks like, a job whose iteration
\* has seen it completed has had its annotation fetch issued, in the cycle
\* that first saw it completed; a job never seen completed has had none.
C14_FetchWhenFirstCompleted ==
    /\ \A i \in 1..Len(jobs) :
          (IterationUpdated(i) /\ jobs[i].status = "Completed")
              => annFetches[jobs[i].id] = 1
    /\ \A j \in JobIds : annFetches[j] > 0 => job_bars[j].finished

\* The check_run_url of the job ends in a check-run id.
HasCheckRunId(job) == IsSome(check_run_id_from_url(job.check_run_url))

\* C14, amended: a job whose iteration has seen it completed with a
\* check_run_url that ends in a check-run id has had its one annotation fetch
\* issued, by the end of that very iteration; the fetch request follows the
\* job's JobUpdated line of that cycle; and a fetch is issued only for the job
\* of the current iteration, completed and with such an id.
C14_FetchWhenCompletedWithId ==
    /\ [](\A i \in 1..Len(jobs) :
            (IterationUpdated(i) /\ jobs[i].status = "Completed" /\ HasCheckRunId(jobs[i]))
                => annFetches[jobs[i].id] = 1)
    /\ [](\A j \in JobIds : annFetches[j] > 0 => job_bars[j].finished)
    /\ [](\A b \in 1..Len(events) :
            events[b].kind = "FetchAnnotations"
                => /\ b > 1
                   /\ events[b - 1] = Ev("JobUpdated", events[b].job, 0, "Completed"))
    /\ [][\A j \in JobIds :
            annFetches'[j] # annFetches[j]
                => /\ pc \in {"for_jobs", "for_steps"}
                   /\ jobs[idx].id = j
                   /\ jobs[idx].status = "Completed"
                   /\ HasCheckRunId(jobs[idx])
                   /\ annFetches[j] = 0
                   /\ annFetches'[j] = 1
                   /\ pc' = "get_annotations"]_vars

\* C14 witness: in the second cycle a job is seen completed, with a check-run
\* id and two steps printed so far, and its first annotation fetch is awaited.
C14_Witness ==
    /\ pc = "get_annotations"
    /\ polls = 2
    /\ job_bars[jobs[idx].id].finished
    /\ annFetches[jobs[idx].id] = 1
    /\ Len(printed[jobs[idx].id]) = 2

\* The lines of this cycle for one job: steps, job, annotations.
Lines(j) == SelectSeq(events, LAMBDA e : e.job = j /\ EventRank(e.kind) > 0)

\* C15: in the example session, the first cycle gives job 1 a JobUpdated line
\* only; the second StepCompleted(1, success), then JobUpdated; the third
\* StepCompleted(2, failure), then JobUpdated, then one AnnotationEmitted
\* line for each annotation returned, in the order returned.
C15_ExampleScenario ==
    script = Scenario =>
        /\ (polls = 1 /\ CycleReconciled)
              => Lines(1) = << Ev("JobUpdated", 1, 0, "InProgress") >>
        /\ (polls = 2 /\ CycleReconciled)
              => Lines(1) = << Ev("StepCompleted", 1, 1, "Success"),
                               Ev("JobUpdated", 1, 0, "InProgress") >>
        /\ (polls = 3 /\ pc = "get_annotations")
              => Lines(1) = << Ev("StepCompleted", 1, 2, "Failure"),
                               Ev("JobUpdated", 1, 0, "Completed") >>
        /\ (polls = 3 /\ CycleReconciled)
              => \E anns \in AnnotationLists :
                    /\ EventsOf("AnnotationsFetched", 1)
                          = << Ev("AnnotationsFetched", 1, Len(anns), None) >>
                    /\ Lines(1) = << Ev("StepCompleted", 1, 2, "Failure"),
                                     Ev("JobUpdated", 1, 0, "Completed") >>
                                  \o [i \in 1..Len(anns) |->
                                         Ev("AnnotationEmitted", 1, i, anns[i])]

\* C15 witness: the third cycle of the example session has printed two
\* annotations.
C15_Witness ==
    /\ script = Scenario
    /\ polls = 3
    /\ CycleReconciled
    /\ Len(EventsOf("AnnotationEmitted", 1)) = 2

\* The cursor of job j at the start of its iteration of this cycle.
CursorAtStart(j) == EventsOf("Reconcile", j)[1].num

\* The numbers of the steps of the i-th job of the list that qualify in this
\* cycle: completed, with a number above the cursor at the start.
Qualifying(i) ==
    { jobs[i].steps[k].number : k \in
        { k \in 1..Len(jobs[i].steps) :
            /\ jobs[i].steps[k].number > CursorAtStart(jobs[i].id)
            /\ jobs[i].steps[k].status = "Completed" } }

\* C16: once the steps of a job are reconciled, its cursor is the largest
\* qualifying step number of the snapshot, whatever the order of the array,
\* and is unchanged if no step qualifies.
C16_CursorIsMaximum ==
    \A i \in 1..Len(jobs) :
        IterationUpdated(i)
            => LET cursor == job_bars[jobs[i].id].last_step
               IN  IF Qualifying(i) = {}
                   THEN cursor = CursorAtStart(jobs[i].id)
                   ELSE /\ cursor \in Qualifying(i)
                        /\ \A n \in Qualifying(i) : n <= cursor

\* C17: once the steps of a job are reconciled, each step of its snapshot
\* that is completed, with a number above the cursor at the start of the
\* reconciliation, has exactly one StepCompleted line in this cycle, with its
\* conclusion; and a job seen for the first time starts from cursor 0.
C17_Completeness ==
    /\ [](\A i \in 1..Len(jobs) :
            IterationUpdated(i)
                => \A k \in 1..Len(jobs[i].steps) :
                      LET step == jobs[i].steps[k]
                      IN  (step.number > CursorAtStart(jobs[i].id)
                              /\ step.status = "Completed")
                          => Len(SelectSeq(events, LAMBDA e :
                                    e = Ev("StepCompleted", jobs[i].id,
                                           step.number, step.conclusion))) = 1)
    /\ [][\A j \in JobIds :
            (~job_bars[j].tracked /\ job_bars'[j].tracked)
                => /\ job_bars[j].last_step = 0
                   /\ EventsOf("Reconcile", j)' = << Ev("Reconcile", j, 0, None) >>]_vars

\* C17 witness: a job first seen in the first cycle had its step 1 printed
\* from cursor 0; in the second cycle it starts from cursor 1 and its step 2
\* is printed.
C17_Witness ==
    /\ CycleReconciled
    /\ polls = 2
    /\ Len(jobs) = 1
    /\ CursorAtStart(jobs[1].id) = 1
    /\ Qualifying(1) = {2}
    /\ printed[jobs[1].id] = <<1, 2>>

\* The loop over the jobs is at work on a job of the list.
Reconciling == pc = "for_steps" \/ (pc = "for_jobs" /\ idx <= Len(jobs))

\* C18: whatever the steps array of a snapshot, shrunk or reordered included,
\* the reconciliation of the job goes on without a failure, and no
\* StepCompleted line of the cycle has a number at or below the cursor the
\* reconciliation started from.
C18_NoStepAtOrBelowCursor ==
    /\ [](\A a \in 1..Len(events) :
            events[a].kind = "StepCompleted"
                => events[a].num > CursorAtStart(events[a].job))
    /\ [](Reconciling => outcome = "Polling")
    /\ [][Reconciling => (outcome' = "Polling"
                            /\ pc' \in {"for_jobs", "for_steps", "get_annotations"})]_vars

\* C18 witness: a job whose cursor is 2 comes back with step 1 alone, step 2
\* gone from the array; the job is reconciled and nothing is printed.
C18_Witness ==
    /\ CycleReconciled
    /\ Len(jobs) = 1
    /\ CursorAtStart(jobs[1].id) = 2
    /\ Len(jobs[1].steps) = 1
    /\ jobs[1].steps[1].number = 1
    /\ jobs[1].steps[1].status = "Completed"
    /\ EventsOf("StepCompleted", jobs[1].id) = <<>>
    /\ EventsOf("JobUpdated", jobs[1].id) # <<>>

\* C19: a cycle that starts with elapsed > MAX_WAIT issues no fetch and prints
\* nothing: the session ends in TimedOut, main returns the error and no Run
\* is reported.  TimedOut is never reached once a cycle has fetched a
\* completed Run, and is not the outcome of a failed fetch.
C19_TimeoutPrecedence ==
    /\ [][(pc = "loop" /\ elapsed > MAX_WAIT)
            => /\ outcome' = "TimedOut"
               /\ pc' = "exit"
               /\ exit' = "err"
               /\ fetches' = fetches
               /\ polls' = polls
               /\ events' = events
               /\ printed' = printed
               /\ annFetches' = annFetches]_vars
    /\ [](outcome = "TimedOut"
            => /\ completedAt = 0
               /\ run = NoRun
               /\ ~FetchFailed
               /\ pc = "exit"
               /\ exit = "err")
    /\ [](FetchFailed => outcome # "TimedOut")

\* C19 witness: the session times out at the top of its third cycle, after
\* two cycles that printed steps.
C19_Witness ==
    /\ outcome = "TimedOut"
    /\ polls = 2
    /\ fetches >= 4
    /\ printed[1] # <<>>

\* C20: within one cycle every job of the list is reconciled before the first
\* annotation fetch of the cycle is issued, so that a failed annotation fetch
\* finds the lines of every job of the list already printed.
C20_ReconcileBeforeFetch ==
    \A b \in 1..Len(events) :
        events[b].kind = "FetchAnnotations"
            => \A i \in 1..Len(jobs) :
                  \E a \in 1..(b - 1) :
                      events[a] = Ev("JobUpdated", jobs[i].id, 0, jobs[i].status)

\* The step numbers of the StepCompleted lines of this cycle for job j.
StepsThisCycle(j) ==
    LET sc == EventsOf("StepCompleted", j)
    IN  [a \in 1..Len(sc) |-> sc[a].num]

\* C21: the lines are printed as they are produced: the step that ends the
\* session in Failed or TimedOut, and every step after it, leaves the lines
\* printed so far as they are, those of the failing cycle included, and the
\* step lines of the failing cycle are the last ones the session printed.
C21_LinesKeptOnFailure ==
    /\ [][outcome' \in {"Failed", "TimedOut"}
            => /\ printed' = printed
               /\ \A j \in JobIds : Lines(j)' = Lines(j)]_vars
    /\ [](outcome \in {"Failed", "TimedOut"}
            => \A j \in JobIds :
                  /\ Len(StepsThisCycle(j)) <= Len(printed[j])
                  /\ StepsThisCycle(j)
                        = SubSeq(printed[j],
                                 Len(printed[j]) - Len(StepsThisCycle(j)) + 1,
                                 Len(printed[j])))

\* C21 witness: the annotation fetch of the second job of the list fails in
\* the second cycle; the lines of both jobs printed before it are there.
C21_Witness ==
    /\ outcome = "Failed"
    /\ polls = 2
    /\ idx = 2
    /\ events[Len(events)].kind = "FetchFailed"
    /\ Lines(jobs[1].id) # <<>>
    /\ EventsOf("StepCompleted", jobs[2].id) # <<>>
    /\ EventsOf("JobUpdated", jobs[2].id) # <<>>

\* The status strings with a variant of their own in JobStatus.
KnownStatuses == {"queued", "waiting", "pending", "in_progress", "completed"}

\* The conclusion strings with a variant of their own in JobConclusion.
KnownConclusions ==
    {"success", "failure", "cancelled", "skipped", "neutral", "action_required",
     "timed_out"}

\* C22: a status or conclusion string outside the known set becomes Unknown
\* and the session does not fail on it: a job of unknown status has its
\* JobUpdated line once its iteration is through and no annotation fetch, a
\* step of unknown status has no StepCompleted line and the cursor does not
\* take its number.
C22_UnknownStrings ==
    pc \in {"for_jobs", "for_steps", "get_annotations"} =>
        \A i \in 1..Len(jobs) :
            LET raw == script[polls][i]
                j   == jobs[i].id
            IN  /\ outcome = "Polling"
                /\ raw.status \notin KnownStatuses
                      => /\ jobs[i].status = "Unknown"
                         /\ ~(pc = "get_annotations" /\ idx = i)
                         /\ annFetches[j] = 0
                         /\ ~job_bars[j].finished
                         /\ IterationUpdated(i)
                               => EventsOf("JobUpdated", j)
                                     = << Ev("JobUpdated", j, 0, "Unknown") >>
                /\ \A k \in 1..Len(raw.steps) :
                      /\ (raw.steps[k].conclusion # None
                            /\ raw.steps[k].conclusion \notin KnownConclusions)
                            => jobs[i].steps[k].conclusion = "Unknown"
                      /\ raw.steps[k].status \notin KnownStatuses
                            => /\ jobs[i].steps[k].status = "Unknown"
                               /\ \A a \in 1..Len(events) :
                                     ~( /\ events[a].kind = "StepCompleted"
                                        /\ events[a].job = j
                                        /\ events[a].num = raw.steps[k].number )
                               /\ job_bars[j].last_step # raw.steps[k].number

\* C22 witness: the second poll of the list with unknown strings is
\* reconciled; step 1 was printed in the first cycle with conclusion Unknown.
C22_Witness ==
    /\ script = << UnknownJobs, UnknownJobs >>
    /\ polls = 2
    /\ CycleReconciled
    /\ printed[1] = <<1>>
    /\ job_bars[1].last_step = 1
    /\ Lines(1) = << Ev("JobUpdated", 1, 0, "Unknown") >>

\* C23: when watch_run returns the Run, every job that had a bar in the
\* session has its bar finished, whether or not the final list holds it or
\* shows it completed; the Run returned is the one fetched in the final
\* cycle, its status completed; the bars are finished by the one step that
\* returns, and nothing touches them or the Run afterwards.
C23_FinalizationOnDone ==
    /\ [](outcome = "Done"
            => /\ \A j \in JobIds : job_bars[j].tracked => job_bars[j].finished
               /\ \A j \in JobIds : job_bars[j].finished => job_bars[j].tracked
               /\ run # NoRun
               /\ run.status = "completed"
               /\ completedAt = polls)
    /\ [](CycleReconciled => \A i \in 1..Len(jobs) : job_bars[jobs[i].id].tracked)
    /\ [][(outcome # "Done" /\ outcome' = "Done")
            => /\ CycleReconciled
               /\ run' = run
               /\ \A j \in JobIds : job_bars'[j].last_step = job_bars[j].last_step]_vars
    /\ [][outcome = "Done" => (outcome' = "Done" /\ job_bars' = job_bars /\ run' = run)]_vars

\* C23 witness: the Run is returned in the third cycle; job 2, seen in an
\* earlier cycle and never completed there, is missing from the final list,
\* whose job 1 is still in progress; both bars are finished.
C23_Witness ==
    /\ outcome = "Done"
    /\ polls = 3
    /\ Len(jobs) = 1
    /\ jobs[1].id = 1
    /\ jobs[1].status = "InProgress"
    /\ job_bars[1].finished
    /\ job_bars[2].tracked
    /\ job_bars[2].finished
    /\ annFetches[2] = 0
    /\ printed[2] # <<>>

\* The session has ended.
Terminal == outcome \in {"Done", "TimedOut", "Failed"}

\* C24: a session ends in one outcome and stays in it: once Done, TimedOut
\* or Failed, the outcome does not change, nothing is fetched or printed and
\* no cursor and no annotation flag changes.  While Polling, a poll other
\* than the first starts from the end of a sleep of at least POLL_INTERVAL,
\* and each sleep is followed by one poll at most.
C24_TerminalAbsorbing ==
    /\ [][Terminal
            => /\ outcome' = outcome
               /\ fetches' = fetches
               /\ polls' = polls
               /\ events' = events
               /\ printed' = printed
               /\ job_bars' = job_bars
               /\ annotated' = annotated
               /\ annFetches' = annFetches]_vars
    /\ [][polls' # polls
            => /\ polls' = polls + 1
               /\ pc = "loop"
               /\ outcome = "Polling"
               /\ pc' = "get_run"]_vars
    /\ [][(pc' = "loop" /\ outcome' = "Polling")
            => \/ pc = "get_latest_run" /\ polls = 0
               \/ pc = "sleep" /\ polls > 0 /\ elapsed' >= elapsed + POLL_INTERVAL]_vars
    /\ [](pc = "loop" => elapsed >= polls * POLL_INTERVAL)

\* C24 witness: a session of three polls, two sleeps between them, has
\* returned the Run and main has returned.
C24_Witness ==
    /\ pc = "exit"
    /\ outcome = "Done"
    /\ polls = 3
    /\ elapsed = 2 * POLL_INTERVAL
    /\ fetches >= 6

\* C25: a step changes the cursor of a job, or its membership of `annotated`,
\* only while the loop is at work on that very job: the cursors and flags of
\* all other jobs, absent from the list or not, stay as they are; and the
\* iteration of a job that is seen again starts from the cursor it was left
\* with.
C25_FrameAcrossJobs ==
    /\ [][\A j \in JobIds :
            ( \/ job_bars'[j].last_step # job_bars[j].last_step
              \/ (j \in annotated') # (j \in annotated) )
                => /\ Reconciling
                   /\ jobs[idx].id = j]_vars
    /\ [][\A j \in JobIds :
            (pc = "for_jobs" /\ idx <= Len(jobs) /\ jobs[idx].id = j)
                => /\ CursorAtStart(j)' = job_bars[j].last_step
                   /\ (j \in annotated) => (j \in annotated')]_vars

\* C25 witness: in the second cycle the list holds job 1 alone and a step of
\* it is printed; job 2, seen in the first cycle, keeps its cursor 1 and its
\* place in `annotated`.
C25_Witness ==
    /\ CycleReconciled
    /\ polls = 2
    /\ Len(jobs) = 1
    /\ jobs[1].id = 1
    /\ EventsOf("StepCompleted", 1) # <<>>
    /\ job_bars[2].last_step = 1
    /\ 2 \in annotated
    /\ 1 \notin annotated

\* watch_run has been entered.
WatchStarted == outcome # "Idle"

====
